---- MODULE Spec2Model ----
(***************************************************************************)
(* The diagnostic logger of the OneNote debug add-in: DllMain and          *)
(* DllRegisterServer (the callers) and Log / LogProcess / GetLogFilePath / *)
(* GetTimestamp (src/src/Logging.cpp).  C strings are TLA+ strings, the    *)
(* log file is the string of its bytes, and the Win32 calls the code makes *)
(* (GetModuleFileNameA, CreateFileA, WriteFile, CloseHandle, the secure    *)
(* CRT's strcpy_s / strcat_s / sprintf_s) are modelled by their documented *)
(* behaviour for the arguments the code passes.                            *)
(***************************************************************************)
EXTENDS Integers, Sequences, FiniteSets, TLC

(* ---------------------------------------------------------------- bounds *)
\* Threads that enter the DLL.
NumThreads == 2
\* Lifecycle events raised after the process attach.
MaxEvents == 2
\* Milliseconds the wall clock may advance.
MaxTick == 1
\* Failures the environment injects (a lock by another process, a failed write).
MaxFaults == 1
\* Longest enumerated tail of a module path.
MaxTail == 3
\* How far below MAX_PATH the enumerated long stems start.
Slack == 6

(* ------------------------------------------------------ program constants *)
MAX_PATH == 260
TimestampSize == 32
LogEntrySize == 1024

NULL == "NULL"
INVALID_HANDLE_VALUE == 0

(* --------------------------------------------------------- C string tools *)
Char(s, i) == SubSeq(s, i, i)

\* strchr in place of strrchr: the first c, not the last.
StrChr(s, c) ==
    LET hits == {i \in 1..Len(s) : Char(s, i) = c}
    IN  IF hits = {} THEN 0 ELSE CHOOSE i \in hits : \A j \in hits : i <= j

\* strrchr(s, c): the 1-based index of the last c in s, 0 for a null result.
StrRChr(s, c) ==
    LET hits == {i \in 1..Len(s) : Char(s, i) = c}
    IN  IF hits = {} THEN 0 ELSE CHOOSE i \in hits : \A j \in hits : j <= i

RECURSIVE Rep(_, _)
Rep(c, n) ==
    IF n <= 0 THEN ""
    ELSE LET half == Rep(c, n \div 2)
         IN  half \o half \o (IF n % 2 = 1 THEN c ELSE "")

\* printf("%lu") / ("%d") of a non-negative number: decimal, no padding.
Digit(d) == Char("0123456789", d + 1)
RECURSIVE Decimal(_)
Decimal(n) == IF n < 10 THEN Digit(n) ELSE Decimal(n \div 10) \o Digit(n % 10)

\* printf("%0<w>d") of a non-negative number: zero-padded to at least w.
ZeroPad(n, w) == Rep("0", w - Len(Decimal(n))) \o Decimal(n)

(* ------------------------------------------------------------ Logging.cpp *)
\* GetModuleFileNameA(hModule, buf, nSize): the path of the module (of the
\* process's executable for a null handle), cut to nSize - 1 characters when
\* it is longer.
GetModuleFileNameA(h, hModule, nSize) ==
    LET full == IF hModule = NULL THEN h.exe ELSE h.module
    IN  IF Len(full) < nSize THEN full ELSE SubSeq(full, 1, nSize - 1)

\* strcpy_s / strcat_s / sprintf_s: the result fits when it leaves room for
\* the terminator.
Fits(len, size) == len < size

Extension == ".log"

\* GetLogFilePath: [ok, path].  ok = FALSE when strcpy_s / strcat_s found the
\* buffer too small and called the invalid parameter handler; path is then
\* what the buffer holds if that handler returns (the destination emptied:
\* cut at the dot for strcpy_s, the empty string for strcat_s).
GetLogFilePath(h, hModule, logPathSize) ==
    LET logPath == GetModuleFileNameA(h, hModule, logPathSize)
        lastDot == StrRChr(logPath, ".")
        kept    == SubSeq(logPath, 1, lastDot - 1)
    IN  IF lastDot # 0
        THEN IF Fits(Len(Extension), logPathSize - (lastDot - 1))
             THEN [ok |-> TRUE,  path |-> kept \o Extension]
             ELSE [ok |-> FALSE, path |-> kept]
        ELSE IF Fits(Len(logPath) + Len(Extension), logPathSize)
             THEN [ok |-> TRUE,  path |-> logPath \o Extension]
             ELSE [ok |-> FALSE, path |-> ""]

\* GetLocalTime after `tick` milliseconds of the run.
GetLocalTime(tick) ==
    LET ms == ((8 * 60 + 5) * 60 + 59) * 1000 + 999 + tick
    IN  [wYear |-> 2026, wMonth |-> 1, wDay |-> 9,
         wHour |-> ms \div 3600000, wMinute |-> (ms \div 60000) % 60,
         wSecond |-> (ms \div 1000) % 60, wMilliseconds |-> ms % 1000]

\* The format with "%d" for the milliseconds: no zero padding.
GetTimestampUnpadded(st) ==
    ZeroPad(st.wYear, 4) \o "-" \o ZeroPad(st.wMonth, 2) \o "-"
        \o ZeroPad(st.wDay, 2) \o " " \o ZeroPad(st.wHour, 2) \o ":"
        \o ZeroPad(st.wMinute, 2) \o ":" \o ZeroPad(st.wSecond, 2) \o "."
        \o Decimal(st.wMilliseconds)

\* GetTimestamp: "%04d-%02d-%02d %02d:%02d:%02d.%03d".
GetTimestamp(st) ==
    ZeroPad(st.wYear, 4) \o "-" \o ZeroPad(st.wMonth, 2) \o "-"
        \o ZeroPad(st.wDay, 2) \o " " \o ZeroPad(st.wHour, 2) \o ":"
        \o ZeroPad(st.wMinute, 2) \o ":" \o ZeroPad(st.wSecond, 2) \o "."
        \o ZeroPad(st.wMilliseconds, 3)

\* sprintf_s into a buffer of `size`: [ok, str]; the buffer is emptied when the
\* text does not fit.
SPrintfS(text, size) ==
    IF Fits(Len(text), size) THEN [ok |-> TRUE, str |-> text]
    ELSE [ok |-> FALSE, str |-> ""]

\* Log's format: "[%s]: [%s]: %s\r\n".
LogFormat(timestamp, functionName, message) ==
    "[" \o timestamp \o "]: [" \o functionName \o "]: " \o message \o "\r\n"

\* LogProcess's processName: after the last backslash, or the whole path.
ProcessName(processPath) ==
    LET slash == StrRChr(processPath, "\\")
    IN  IF slash # 0 THEN SubSeq(processPath, slash + 1, Len(processPath))
        ELSE processPath

\* LogProcess's format: "[%s]: [ProcessInfo]: Process=%s PID=%lu Path=%s\r\n".
LogProcessFormat(timestamp, processName, pid, processPath) ==
    "[" \o timestamp \o "]: [ProcessInfo]: Process=" \o processName
        \o " PID=" \o Decimal(pid) \o " Path=" \o processPath \o "\r\n"

\* CreateFileA without FILE_SHARE_WRITE, and with CREATE_ALWAYS.
ShareReadOnly == {"FILE_SHARE_READ"}
CreateAlways == "CREATE_ALWAYS"

\* The arguments of CreateFileA.
DesiredAccess == "FILE_APPEND_DATA"
ShareMode == {"FILE_SHARE_READ", "FILE_SHARE_WRITE"}
CreationDisposition == "OPEN_ALWAYS"

\* The result of CreateFileA left untested.
OpenUntested(hFile) == TRUE

\* if (hFile != INVALID_HANDLE_VALUE)
OpenSucceeded(hFile) == hFile # INVALID_HANDLE_VALUE

(* ---------------------------------------------------- DllMain / DllReg.cpp *)
LogCall(functionName, message) ==
    [fn |-> "Log", functionName |-> functionName, message |-> message]
LogProcessCall == [fn |-> "LogProcess", functionName |-> "", message |-> ""]

\* DllMain with the two calls of the process attach in the other order.
DllMainCallsSwapped(reason) ==
    IF reason = "DLL_PROCESS_ATTACH"
    THEN << LogCall("DllMain", "DLL_PROCESS_ATTACH - DLL loaded into process"),
            LogProcessCall >>
    ELSE << LogCall("DllMain", reason) >>

\* The logging calls of DllMain, per ul_reason_for_call, in order.
DllMainCalls(reason) ==
    CASE reason = "DLL_PROCESS_ATTACH" ->
            << LogProcessCall,
               LogCall("DllMain", "DLL_PROCESS_ATTACH - DLL loaded into process") >>
      [] reason = "DLL_THREAD_ATTACH" ->
            << LogCall("DllMain", "DLL_THREAD_ATTACH - New thread created in process") >>
      [] reason = "DLL_THREAD_DETACH" ->
            << LogCall("DllMain", "DLL_THREAD_DETACH - Thread exiting cleanly") >>
      [] reason = "DLL_PROCESS_DETACH" ->
            << LogCall("DllMain", "DLL_PROCESS_DETACH - DLL being unloaded from process") >>

\* DllMain clearing the handle when the process detaches.
DllMainHModuleCleared(reason, hModule, current) ==
    CASE reason = "DLL_PROCESS_ATTACH" -> hModule
      [] reason = "DLL_PROCESS_DETACH" -> NULL
      [] OTHER -> current

\* g_hModule after DllMain's switch has run for `reason`.
DllMainHModule(reason, hModule, current) ==
    IF reason = "DLL_PROCESS_ATTACH" THEN hModule ELSE current

\* return TRUE;
DllMainReturn == "TRUE"

\* The logging calls of DllRegisterServer, in order.
DllRegisterServerCalls ==
    << LogCall("DllRegisterServer", "Registration started"),
       LogCall("DllRegisterServer", "Registration completed successfully") >>

\* return S_OK;
DllRegisterServerReturn == "S_OK"

Reasons == {"DLL_PROCESS_ATTACH", "DLL_THREAD_ATTACH", "DLL_THREAD_DETACH",
            "DLL_PROCESS_DETACH"}
Ops == Reasons \cup {"DllRegisterServer"}
CallsOf(op) == IF op = "DllRegisterServer" THEN DllRegisterServerCalls
               ELSE DllMainCalls(op)
ReturnOf(op) == IF op = "DllRegisterServer" THEN DllRegisterServerReturn
                ELSE DllMainReturn

(* ------------------------------------------------------------ file system *)
\* The sharing a holder of `access` needs of every other handle on the file.
Needs(access) ==
    CASE access = "FILE_APPEND_DATA" -> {"FILE_SHARE_WRITE"}
      [] access = "GENERIC_WRITE"    -> {"FILE_SHARE_WRITE"}
      [] access = "GENERIC_READ"     -> {"FILE_SHARE_READ"}

\* CreateFileA's sharing check against the handles open on `path`.
Compatible(hs, path, access, share) ==
    \A id \in DOMAIN hs :
        hs[id].path = path =>
            /\ Needs(access) \subseteq hs[id].share
            /\ Needs(hs[id].access) \subseteq share

\* The file's bytes after CreateFileA succeeded with `disposition`.
Opened(files, path, disposition) ==
    IF path \in DOMAIN files /\ disposition = "OPEN_ALWAYS" THEN files
    ELSE (path :> "") @@ files

\* The file's bytes after WriteFile of `data` through handle `hd`: at the end
\* of the file for an append handle, at the handle's position otherwise.
Written(content, hd, data) ==
    IF hd.access = "FILE_APPEND_DATA" THEN content \o data
    ELSE SubSeq(content, 1, hd.pos) \o data
             \o SubSeq(content, hd.pos + Len(data) + 1, Len(content))

\* The handle value CreateFileA returns: one no open handle has.
NewHandle(hs) == CHOOSE id \in 1..(Cardinality(DOMAIN hs) + 1) : id \notin DOMAIN hs

\* CloseHandle never called: the handle stays open.
HandleLeft(hs, id) == hs

\* CloseHandle.
CloseHandle(hs, id) == [i \in DOMAIN hs \ {id} |-> hs[i]]

(* ------------------------------------------------------------------ state *)
VARIABLES
    host,       \* the process: [module, exe, pid, handlerReturns]
    scope,      \* who runs: [threads, budget, env]
    faults,     \* failures injected so far
    g_hModule,  \* Globals: the module handle
    phase,      \* "unloaded", "attaching", "loaded", "unloading", "detached"
    tick,       \* the last reading of the wall clock, in milliseconds of the run
    files,      \* the file system: path -> bytes
    handles,    \* the open handles: id -> [path, access, share, pos, owner]
    crashed,    \* the invalid parameter handler has terminated the process
    pc,         \* per thread: "idle", "open", "write", "close"
    op,         \* per thread: the entry point it is in
    idx,        \* per thread: which logging call of the entry point it is in
    ev,         \* per thread: the serial number of its event
    logPath,    \* per thread: Log's logPath
    logEntry,   \* per thread: Log's logEntry
    hFile,      \* per thread: Log's hFile
    events,     \* history: the events raised, [op, ret]
    calls,      \* history: <<event, call>> -> [fn, path, entry, opened, wrote, closed]
    appended    \* history: the calls whose WriteFile added bytes, in order

vars == << host, scope, faults, g_hModule, phase, tick, files, handles,
           crashed, pc, op, idx, ev, logPath, logEntry, hFile, events, calls,
           appended >>

Threads == 1..NumThreads
HDll == "hDll"
External == << 0, 0 >>

ExePath == "C:\\Program Files\\Microsoft Office\\root\\Office16\\ONENOTE.EXE"
ProcessId == 4660

Host(module, handlerReturns) ==
    [module |-> module, exe |-> ExePath, pid |-> ProcessId,
     handlerReturns |-> handlerReturns]

\* "C:\" followed by a's, n characters in all.
Stem(n) == "C:\\" \o Rep("a", n - 3)

\* The module paths of a loaded add-in: the spec's scenarios, a dotted
\* directory, and paths at the edge of MAX_PATH.
ScenarioModules ==
    { "C:\\app\\plugin.dll", "C:\\app\\plugin", "C:\\app.v2\\plugin" }

RECURSIVE Tails(_)
Tails(n) ==
    IF n = 0 THEN {""}
    ELSE LET shorter == Tails(n - 1)
         IN  shorter \cup {s \o c : s \in {x \in shorter : Len(x) = n - 1},
                                    c \in {"a", ".", "\\"}}

\* A file path has no empty component and does not end in a separator.
ValidModulePath(p) ==
    /\ Char(p, Len(p)) # "\\"
    /\ \A i \in 1..(Len(p) - 1) : ~(Char(p, i) = "\\" /\ Char(p, i + 1) = "\\")

StemLengths == {4} \cup ((MAX_PATH - Slack)..(MAX_PATH - 1))
\* Longer than the buffer, its extension long enough for the result to fit.
LongExtensionModule == Stem(MAX_PATH - 10) \o ".abcdefghijk"

PathInputs ==
    ScenarioModules \cup {LongExtensionModule} \cup
    {p \in {Stem(n) \o t : n \in StemLengths, t \in Tails(MaxTail)} :
        ValidModulePath(p)}

ThreadInit ==
    /\ faults = 0
    /\ g_hModule = NULL
    /\ phase = "unloaded"
    /\ tick = 0
    /\ files = << >>
    /\ handles = << >>
    /\ crashed = FALSE
    /\ pc = [t \in Threads |-> "idle"]
    /\ op = [t \in Threads |-> "none"]
    /\ idx = [t \in Threads |-> 0]
    /\ ev = [t \in Threads |-> 0]
    /\ logPath = [t \in Threads |-> ""]
    /\ logEntry = [t \in Threads |-> ""]
    /\ hFile = [t \in Threads |-> INVALID_HANDLE_VALUE]
    /\ events = << >>
    /\ calls = << >>
    /\ appended = << >>

\* The hosts of the scenarios: the add-in as plugin.dll, and under a path
\* of MAX_PATH - 1 characters that has no dot.
PluginHost == Host("C:\\app\\plugin.dll", FALSE)
LongHost == Host(Stem(MAX_PATH - 3) \o "\\p", FALSE)

\* The add-in in a process whose threads raise events concurrently.
Init ==
    /\ host \in {PluginHost, LongHost}
    /\ scope = [threads |-> Threads, budget |-> MaxEvents, env |-> FALSE]
    /\ ThreadInit

\* One thread raising its events in sequence (one fewer than the threads of
\* Init raise) while the clock advances, another process locks the log file
\* and writes fail; the executable's path with and without a directory.
InitEnv ==
    /\ host \in {PluginHost, LongHost, [PluginHost EXCEPT !.exe = "ONENOTE.EXE"]}
    /\ scope = [threads |-> {1}, budget |-> MaxEvents - 1, env |-> TRUE]
    /\ ThreadInit

\* One thread loading the add-in from each enumerated module path.
InitPath ==
    /\ host \in {Host(m, r) : m \in PathInputs, r \in BOOLEAN}
    /\ scope = [threads |-> {1}, budget |-> 0, env |-> FALSE]
    /\ ThreadInit

(* ---------------------------------------------------------------- actions *)
Call(t) == CallsOf(op[t])[idx[t]]
Me(t) == << ev[t], idx[t] >>

\* The call returns to its entry point, which makes its next call or returns.
Return(t) ==
    /\ logPath' = [logPath EXCEPT ![t] = ""]
    /\ logEntry' = [logEntry EXCEPT ![t] = ""]
    /\ hFile' = [hFile EXCEPT ![t] = INVALID_HANDLE_VALUE]
    /\ IF idx[t] < Len(CallsOf(op[t]))
       THEN /\ idx' = [idx EXCEPT ![t] = @ + 1]
            /\ pc' = [pc EXCEPT ![t] = "open"]
            /\ UNCHANGED << op, ev, events, phase >>
       ELSE /\ idx' = [idx EXCEPT ![t] = 0]
            /\ pc' = [pc EXCEPT ![t] = "idle"]
            /\ op' = [op EXCEPT ![t] = "none"]
            /\ ev' = [ev EXCEPT ![t] = 0]
            /\ events' = [events EXCEPT ![ev[t]].ret = ReturnOf(op[t])]
            /\ phase' = CASE op[t] = "DLL_PROCESS_ATTACH" -> "loaded"
                          [] op[t] = "DLL_PROCESS_DETACH" -> "detached"
                          [] OTHER -> phase

\* The host calls DllMain(hModule, reason, ..) or DllRegisterServer() on
\* thread t; the entry point runs up to its first logging call.
Enter(t, o) ==
    /\ ~crashed
    /\ t \in scope.threads
    /\ pc[t] = "idle"
    /\ \A u \in scope.threads : pc[u] = "idle" => t <= u
    /\ IF o = "DLL_PROCESS_ATTACH" THEN phase = "unloaded"
       ELSE phase = "loaded" /\ Len(events) <= scope.budget
    /\ phase' = CASE o = "DLL_PROCESS_ATTACH" -> "attaching"
                  [] o = "DLL_PROCESS_DETACH" -> "unloading"
                  [] OTHER -> phase
    /\ g_hModule' = IF o \in Reasons THEN DllMainHModule(o, HDll, g_hModule)
                    ELSE g_hModule
    /\ events' = Append(events, [op |-> o, ret |-> "none"])
    /\ ev' = [ev EXCEPT ![t] = Len(events) + 1]
    /\ op' = [op EXCEPT ![t] = o]
    /\ idx' = [idx EXCEPT ![t] = 1]
    /\ pc' = [pc EXCEPT ![t] = "open"]
    /\ UNCHANGED << host, scope, faults, tick, files, handles, crashed,
                    logPath, logEntry, hFile, calls, appended >>

\* Log / LogProcess up to CreateFileA: the path, the timestamp and the entry.
Prepared(t, now) ==
    LET c    == Call(t)
        lp   == GetLogFilePath(host, g_hModule, MAX_PATH)
        ts   == SPrintfS(GetTimestamp(GetLocalTime(now)), TimestampSize)
        proc == GetModuleFileNameA(host, NULL, MAX_PATH)
        text == IF c.fn = "Log"
                THEN LogFormat(ts.str, c.functionName, c.message)
                ELSE LogProcessFormat(ts.str, ProcessName(proc), host.pid, proc)
        le   == SPrintfS(text, LogEntrySize)
    IN  [ok |-> lp.ok /\ ts.ok /\ le.ok, path |-> lp.path, entry |-> le.str,
         fn |-> c.fn]

\* The secure CRT found a buffer too small and the invalid parameter handler
\* is the default one: the process is terminated.
LogAbort(t) ==
    /\ ~crashed
    /\ pc[t] = "open"
    /\ ~Prepared(t, tick).ok
    /\ ~host.handlerReturns
    /\ crashed' = TRUE
    /\ calls' = (Me(t) :> [fn |-> Prepared(t, tick).fn, path |-> "", entry |-> "",
                           opened |-> FALSE, wrote |-> "no", closed |-> FALSE,
                           aborted |-> TRUE]) @@ calls
    /\ UNCHANGED << host, scope, faults, g_hModule, phase, tick, files, handles, pc, op, idx, ev, logPath, logEntry, hFile,
                    events, appended >>

\* The clock readings GetLocalTime may return: not before the last one.
Readings == IF scope.env THEN tick..MaxTick ELSE {tick}

\* Log / LogProcess through CreateFileA and the test of its result.
LogOpen(t) ==
    /\ ~crashed
    /\ pc[t] = "open"
    /\ Prepared(t, tick).ok \/ host.handlerReturns
    /\ \E now \in Readings :
        LET p    == Prepared(t, now)
            can  == p.path # "" /\ Compatible(handles, p.path, DesiredAccess, ShareMode)
            h    == IF can THEN NewHandle(handles) ELSE INVALID_HANDLE_VALUE
        IN  /\ tick' = now
            /\ calls' = (Me(t) :> [fn |-> p.fn, path |-> p.path, entry |-> p.entry,
                                   opened |-> can, wrote |-> "no", closed |-> FALSE,
                                   aborted |-> FALSE]) @@ calls
            /\ IF can
               THEN /\ handles' = (NewHandle(handles) :>
                         [path |-> p.path, access |-> DesiredAccess,
                          share |-> ShareMode, pos |-> 0, owner |-> Me(t)]) @@ handles
                    /\ files' = Opened(files, p.path, CreationDisposition)
               ELSE UNCHANGED << handles, files >>
            /\ IF OpenSucceeded(h)
               THEN /\ pc' = [pc EXCEPT ![t] = "write"]
                    /\ logPath' = [logPath EXCEPT ![t] = p.path]
                    /\ logEntry' = [logEntry EXCEPT ![t] = p.entry]
                    /\ hFile' = [hFile EXCEPT ![t] = h]
                    /\ UNCHANGED << op, idx, ev, events, phase >>
               ELSE Return(t)
    /\ UNCHANGED << host, scope, faults, g_hModule, crashed, appended >>

\* What WriteFile may return: TRUE, and FALSE while the environment may fail.
WriteOutcomes == IF scope.env /\ faults < MaxFaults THEN BOOLEAN ELSE {TRUE}

\* WriteFile(hFile, logEntry, strlen(logEntry), ..): the bytes are added, or
\* the write fails and adds nothing.
LogWrite(t) ==
    /\ ~crashed
    /\ pc[t] = "write"
    /\ \E ok \in WriteOutcomes :
         LET valid == hFile[t] \in DOMAIN handles
             hd    == handles[hFile[t]]
             done  == ok /\ valid
         IN  /\ files' = IF done
                         THEN [files EXCEPT ![hd.path] = Written(@, hd, logEntry[t])]
                         ELSE files
             /\ handles' = IF done
                           THEN [handles EXCEPT ![hFile[t]].pos = @ + Len(logEntry[t])]
                           ELSE handles
             /\ calls' = [calls EXCEPT ![Me(t)].wrote = IF done THEN "yes" ELSE "failed"]
             /\ appended' = IF done /\ logEntry[t] # "" THEN Append(appended, Me(t))
                            ELSE appended
             /\ faults' = IF ok THEN faults ELSE faults + 1
    /\ pc' = [pc EXCEPT ![t] = "close"]
    /\ UNCHANGED << host, scope, g_hModule, phase, tick, crashed,
                    op, idx, ev, logPath, logEntry, hFile, events >>

\* CloseHandle(hFile), and the call returns.
LogClose(t) ==
    /\ ~crashed
    /\ pc[t] = "close"
    /\ handles' = CloseHandle(handles, hFile[t])
    /\ calls' = [calls EXCEPT ![Me(t)].closed = TRUE]
    /\ Return(t)
    /\ UNCHANGED << host, scope, faults, g_hModule, tick, files, crashed,
                    appended >>

\* Another process opens the log file for itself alone.
ExternalLock ==
    /\ ~crashed
    /\ scope.env
    /\ faults < MaxFaults
    /\ faults' = faults + 1
    /\ \A id \in DOMAIN handles : handles[id].owner # External
    /\ \E p \in DOMAIN files :
         /\ Compatible(handles, p, "GENERIC_READ", {})
         /\ handles' = (NewHandle(handles) :>
                [path |-> p, access |-> "GENERIC_READ", share |-> {}, pos |-> 0,
                 owner |-> External]) @@ handles
    /\ UNCHANGED << host, scope, g_hModule, phase, tick, files, crashed, pc, op,
                    idx, ev, logPath, logEntry, hFile, events, calls, appended >>

\* and closes it again.
ExternalUnlock ==
    /\ ~crashed
    /\ \E id \in DOMAIN handles :
         /\ handles[id].owner = External
         /\ handles' = CloseHandle(handles, id)
    /\ UNCHANGED << host, scope, faults, g_hModule, phase, tick, files, crashed, pc, op, idx, ev, logPath, logEntry, hFile, events,
                    calls, appended >>

\* The steps of the add-in's threads.
Next ==
    \E t \in Threads :
        \/ \E o \in Ops : Enter(t, o)
        \/ LogAbort(t)
        \/ LogOpen(t)
        \/ LogWrite(t)
        \/ LogClose(t)

\* The steps of the add-in and of its environment.
EnvNext ==
    \/ Next
    \/ ExternalLock
    \/ ExternalUnlock

Spec == Init /\ [][Next]_vars
SpecEnv == InitEnv /\ [][EnvNext]_vars
SpecPath == InitPath /\ [][Next]_vars

(* ------------------------------------------------------------- properties *)
\* What the specification says of a module path, stated without the code's
\* string functions: its final component, its extension, its log location.
LastBackslash(p) ==
    IF \E i \in 1..Len(p) : Char(p, i) = "\\"
    THEN CHOOSE i \in 1..Len(p) :
            Char(p, i) = "\\" /\ \A j \in (i + 1)..Len(p) : Char(p, j) # "\\"
    ELSE 0
ExtensionDot(p) ==
    IF \E i \in (LastBackslash(p) + 1)..Len(p) : Char(p, i) = "."
    THEN CHOOSE i \in (LastBackslash(p) + 1)..Len(p) :
            Char(p, i) = "." /\ \A j \in (i + 1)..Len(p) : Char(p, j) # "."
    ELSE 0
HasExtension(p) == ExtensionDot(p) # 0
LogLocation(p) ==
    IF HasExtension(p) THEN SubSeq(p, 1, ExtensionDot(p) - 1) \o ".log"
    ELSE p \o ".log"
FitsBuffer(p) == Len(LogLocation(p)) < MAX_PATH

\* The calls that have run GetLogFilePath.
Resolved == DOMAIN calls

\* C1: a module path with no extension gets ".log" appended to the whole,
\* unmodified path, a dot in a directory name notwithstanding.  Stated for
\* the paths whose result fits the buffer, where overflow plays no part.
C1_AppendsLogWhenNoExtension ==
    \A k \in Resolved :
        (~HasExtension(host.module) /\ FitsBuffer(host.module))
            => calls[k].path = host.module \o ".log"

\* C2 as written: every module path ending in an extension has exactly its
\* final extension replaced by ".log" in the path GetLogFilePath returns
\* (stated of the calls in which it returns).
C2_ReplacesExtensionAlways ==
    \A k \in Resolved :
        (HasExtension(host.module) /\ ~calls[k].aborted)
            => calls[k].path = LogLocation(host.module)

\* C2 as amended: a module path ending in an extension, whose log location
\* fits a buffer of MAX_PATH characters, has exactly its final extension
\* replaced by ".log"; directory and basename are unchanged.
C2_ReplacesExtensionWhenItFits ==
    \A k \in Resolved :
        (HasExtension(host.module) /\ FitsBuffer(host.module))
            => /\ ~calls[k].aborted
               /\ calls[k].path = LogLocation(host.module)
               /\ SubSeq(calls[k].path, 1, ExtensionDot(host.module) - 1)
                      = SubSeq(host.module, 1, ExtensionDot(host.module) - 1)

C2_Witness ==
    /\ host.module = "C:\\app\\plugin.dll"
    /\ \E k \in Resolved : calls[k].path = "C:\\app\\plugin.log" /\ calls[k].closed

\* C7: when the log location does not fit the buffer, GetLogFilePath signals
\* nothing and leaves a path that fits, and the call goes on to CreateFileA.
C7_OverflowIsSilent ==
    ~FitsBuffer(host.module)
        => /\ ~crashed
           /\ \A k \in Resolved :
                ~calls[k].aborted /\ Len(calls[k].path) < MAX_PATH

\* ---- the log file and its lines
RECURSIVE Flatten(_)
Flatten(ks) == IF ks = << >> THEN "" ELSE calls[Head(ks)].entry \o Flatten(Tail(ks))

\* Every file holds the entries of the calls that wrote to it, whole and in
\* the order of their writes, and nothing else.
FileIsItsWrites ==
    \A p \in DOMAIN files :
        files[p] = Flatten(SelectSeq(appended, LAMBDA k : calls[k].path = p))

\* One line: text without line breaks, then CR LF.
IsLine(l) ==
    /\ Len(l) >= 2
    /\ SubSeq(l, Len(l) - 1, Len(l)) = "\r\n"
    /\ \A i \in 1..(Len(l) - 2) : Char(l, i) \notin {"\r", "\n"}

Failed(k) == ~calls[k].aborted /\ (~calls[k].opened \/ calls[k].wrote = "failed")
Returned(k) == \A t \in Threads : pc[t] = "idle" \/ Me(t) # k
LoggerHandles == {id \in DOMAIN handles : handles[id].owner # External}
InCall(t) == pc[t] \in {"write", "close"}

\* C3: calls running concurrently on one log file all open it, and each adds
\* its own complete line: the file is the calls' entries one after another,
\* none split, overwritten or lost.
C3_ConcurrentCallsEachAddALine ==
    /\ \A k \in DOMAIN calls : ~calls[k].aborted => calls[k].opened
    /\ FileIsItsWrites
    /\ \A i \in 1..Len(appended) : IsLine(calls[appended[i]].entry)
    /\ \A k \in DOMAIN calls :
         calls[k].closed
            => Cardinality({i \in 1..Len(appended) : appended[i] = k}) = 1

C3_Witness ==
    \E t, u \in Threads :
        /\ t # u /\ InCall(t) /\ InCall(u)
        /\ calls[Me(t)].wrote = "yes" /\ calls[Me(u)].wrote = "no"
        /\ handles[hFile[t]].path = handles[hFile[u]].path
        /\ Len(appended) >= 3

\* C4: a step never removes a file or changes the bytes it holds; a step
\* that adds bytes adds exactly one CRLF-terminated line.
C4_AppendOnly ==
    [][\A p \in DOMAIN files :
          /\ p \in DOMAIN files'
          /\ LET old == files[p]
                 new == files'[p]
             IN  \/ new = old
                 \/ /\ Len(new) > Len(old)
                    /\ SubSeq(new, 1, Len(old)) = old
                    /\ IsLine(SubSeq(new, Len(old) + 1, Len(new)))]_vars

C4_Witness ==
    /\ Len(appended) >= 3
    /\ \E k \in DOMAIN calls : calls[k].wrote = "failed"
    /\ \E i, j \in 1..Len(appended) :
         calls[appended[i]].fn = "Log" /\ calls[appended[j]].fn = "LogProcess"

\* C5: a call whose CreateFileA or WriteFile fails returns at once, without
\* a retry, a write through the invalid handle or a change to the file; the
\* process lives on, and when the entry point returns it returns TRUE
\* (DllMain) or S_OK (DllRegisterServer).
C5_FailuresAreSilent ==
    /\ \A k \in DOMAIN calls :
         (~calls[k].opened /\ ~calls[k].aborted)
            => calls[k].wrote = "no" /\ ~calls[k].closed /\ Returned(k)
    /\ \A k \in DOMAIN calls :
         Failed(k) => \A i \in 1..Len(appended) : appended[i] # k
    /\ FileIsItsWrites
    /\ (\E k \in DOMAIN calls : Failed(k)) => ~crashed
    /\ \A e \in 1..Len(events) :
         events[e].ret \in
            {"none", IF events[e].op = "DllRegisterServer" THEN "S_OK" ELSE "TRUE"}

C5_Witness ==
    \E k \in DOMAIN calls :
        /\ ~calls[k].opened /\ ~calls[k].aborted
        /\ events[k[1]].ret = "TRUE"
        /\ files # << >>

\* C6: every handle of the logger belongs to a call that is between its
\* CreateFileA and its return and is the handle that call opened; a call that
\* returned has closed the handle it opened, and a call whose open failed had
\* none to close.
C6_HandlesAreScopedToTheCall ==
    /\ \A id \in LoggerHandles :
         \E t \in Threads :
            InCall(t) /\ hFile[t] = id /\ handles[id].owner = Me(t)
    /\ \A t \in Threads :
         InCall(t) => hFile[t] \in DOMAIN handles /\ handles[hFile[t]].owner = Me(t)
    /\ (\A t \in Threads : ~InCall(t)) => LoggerHandles = {}
    /\ \A k \in DOMAIN calls :
         /\ (calls[k].opened /\ Returned(k)) => calls[k].closed
         /\ ~calls[k].opened => ~calls[k].closed

C6_Witness ==
    /\ \A t \in Threads : pc[t] = "idle"
    /\ LoggerHandles = {}
    /\ \E k \in DOMAIN calls : calls[k].opened /\ calls[k].closed
    /\ \E k \in DOMAIN calls : ~calls[k].opened /\ ~calls[k].aborted

\* ---- the shape of a line
IsDigit(ch) == \E i \in 1..10 : Char("0123456789", i) = ch
DigitValue(ch) == (CHOOSE i \in 1..10 : Char("0123456789", i) = ch) - 1
RECURSIVE Value(_)
Value(ds) ==
    IF ds = "" THEN 0
    ELSE 10 * Value(SubSeq(ds, 1, Len(ds) - 1)) + DigitValue(Char(ds, Len(ds)))

\* YYYY-MM-DD HH:MM:SS.mmm
IsTimestamp(ts) ==
    /\ Len(ts) = 23
    /\ Char(ts, 5) = "-" /\ Char(ts, 8) = "-" /\ Char(ts, 11) = " "
    /\ Char(ts, 14) = ":" /\ Char(ts, 17) = ":" /\ Char(ts, 20) = "."
    /\ \A i \in (1..23) \ {5, 8, 11, 14, 17, 20} : IsDigit(Char(ts, i))

\* l is pre, then something of mid characters, then post.
Framed(l, pre, mid, post) ==
    /\ Len(l) = Len(pre) + mid + Len(post)
    /\ SubSeq(l, 1, Len(pre)) = pre
    /\ SubSeq(l, Len(l) - Len(post) + 1, Len(l)) = post

\* [<timestamp>]: [<tag>]: <message>\r\n
IsLogLine(l, tag, message) ==
    /\ Framed(l, "[", 23, "]: [" \o tag \o "]: " \o message \o "\r\n")
    /\ IsTimestamp(SubSeq(l, 2, 24))

\* [<timestamp>]: [ProcessInfo]: Process=<name> PID=<pid> Path=<fullPath>\r\n
IsProcessLine(l, fullPath, pid) ==
    LET name   == SubSeq(fullPath, LastBackslash(fullPath) + 1, Len(fullPath))
        pre    == "]: [ProcessInfo]: Process=" \o name \o " PID="
        post   == " Path=" \o fullPath \o "\r\n"
        rest   == SubSeq(l, 25, Len(l))
        digits == SubSeq(rest, Len(pre) + 1, Len(rest) - Len(post))
    IN  /\ Len(l) > 24 + Len(pre) + Len(post)
        /\ Char(l, 1) = "["
        /\ IsTimestamp(SubSeq(l, 2, 24))
        /\ Framed(rest, pre, Len(digits), post)
        /\ \A i \in 1..Len(digits) : IsDigit(Char(digits, i))
        /\ Char(digits, 1) # "0"
        /\ Value(digits) = pid

\* C8: every line in the file has the shape of its call: Log's with the tag
\* and the message its caller passed, LogProcess's with the name, the id and
\* the path of the process.
C8_LinesHaveTheirShape ==
    /\ FileIsItsWrites
    /\ \A i \in 1..Len(appended) :
         LET k    == appended[i]
             args == CallsOf(events[k[1]].op)[k[2]]
         IN  IF calls[k].fn = "Log"
             THEN IsLogLine(calls[k].entry, args.functionName, args.message)
             ELSE IsProcessLine(calls[k].entry, host.exe, host.pid)

C8_Witness ==
    /\ host.exe = ExePath
    /\ \E i, j \in 1..Len(appended) :
         /\ calls[appended[i]].fn = "LogProcess"
         /\ calls[appended[j]].fn = "Log"
         /\ SubSeq(calls[appended[j]].entry, 21, 25) = ".000]"
    /\ files[LogLocation(host.module)] # ""

\* C9: the module handle is null until the process attach and the add-in's
\* own from then on, whatever events follow; every call resolves the one log
\* location, the module path's.
C9_OneLogLocation ==
    /\ g_hModule = IF phase = "unloaded" THEN NULL ELSE HDll
    /\ \A k \in DOMAIN calls :
         ~calls[k].aborted
            => /\ \A j \in DOMAIN calls : ~calls[j].aborted => calls[j].path = calls[k].path
               /\ FitsBuffer(host.module) => calls[k].path = LogLocation(host.module)

C9_Witness ==
    /\ g_hModule = HDll
    /\ \E d, r \in 1..Len(events) :
         /\ events[d].op = "DLL_PROCESS_DETACH" /\ events[d].ret = "TRUE"
         /\ events[r].op = "DllRegisterServer" /\ events[r].ret = "S_OK"
    /\ \A e \in 1..Len(events), i \in 1..2 :
         << e, i >> \in DOMAIN calls => calls[<< e, i >>].path = "C:\\app\\plugin.log"
    /\ Cardinality(DOMAIN calls) = 5

\* ---- the lines of each entry point, as the specification gives them
ExpectedLines(o) ==
    CASE o = "DLL_PROCESS_ATTACH" ->
            << "]: [ProcessInfo]: Process=",
               "]: [DllMain]: DLL_PROCESS_ATTACH - DLL loaded into process\r\n" >>
      [] o = "DLL_THREAD_ATTACH" ->
            << "]: [DllMain]: DLL_THREAD_ATTACH - New thread created in process\r\n" >>
      [] o = "DLL_THREAD_DETACH" ->
            << "]: [DllMain]: DLL_THREAD_DETACH - Thread exiting cleanly\r\n" >>
      [] o = "DLL_PROCESS_DETACH" ->
            << "]: [DllMain]: DLL_PROCESS_DETACH - DLL being unloaded from process\r\n" >>
      [] o = "DllRegisterServer" ->
            << "]: [DllRegisterServer]: Registration started\r\n",
               "]: [DllRegisterServer]: Registration completed successfully\r\n" >>

\* The text of the line after its timestamp begins with `text`, and is all of
\* it unless it is the ProcessInfo line.
LineIs(l, text) ==
    /\ SubSeq(l, 25, 24 + Len(text)) = text
    /\ Len(l) = 24 + Len(text) \/ text = "]: [ProcessInfo]: Process="

\* C10: the lines an event has added are, in the order of the file, the
\* first lines of its entry point's sequence, and all of them once the entry
\* point has returned: ProcessInfo then the attach message for the process
\* attach, one generic line for the other DllMain events, "started" then
\* "completed" for DllRegisterServer.  The module handle is the add-in's
\* before the first logging call: that call resolves the module's location.
C10_LinesFollowTheEntryPoint ==
    /\ DOMAIN calls # {} => g_hModule = HDll
    /\ \A e \in 1..Len(events) :
         LET mine == SelectSeq(appended, LAMBDA k : k[1] = e)
             want == ExpectedLines(events[e].op)
         IN  /\ Len(mine) <= Len(want)
             /\ \A i \in 1..Len(mine) :
                  mine[i] = << e, i >> /\ LineIs(calls[mine[i]].entry, want[i])
             /\ events[e].ret # "none" => Len(mine) = Len(want)
    /\ (<< 1, 1 >> \in DOMAIN calls /\ ~calls[<< 1, 1 >>].aborted)
          => calls[<< 1, 1 >>].path = LogLocation(host.module)

C10_Witness ==
    /\ Len(events) = 3
    /\ \A e \in 1..3 : events[e].ret # "none"
    /\ events[1].op = "DLL_PROCESS_ATTACH"
    /\ \E e, f \in 2..3 :
         events[e].op = "DllRegisterServer" /\ events[f].op = "DLL_THREAD_ATTACH"
    /\ Len(appended) = 5

====
